---------------------------- MODULE Spec2Model ----------------------------
(***************************************************************************)
(* A model of server-stats.py: the byte formatter, the disk aggregation,   *)
(* the two-pass process sampler, the failed-login counter, the GPU probe   *)
(* and main()'s sequencing of the collectors.                              *)
(*                                                                         *)
(* Byte counts exceed 32 bits, so an integer n is held as its base-1024    *)
(* digits, least significant first, without leading zero digits            *)
(* (<<0>> is zero): <<512, 1>> is 1536 and <<0, 0, 0, 0, 1>> is 1024^4.    *)
(***************************************************************************)
EXTENDS Integers, Sequences, FiniteSets, TLC

VARIABLES
    hb_n, hb_out, hb_pc,                                  \* human_bytes
    dk_parts, dk_i, dk_seen, dk_rows, dk_tot, dk_pc, dk_out,  \* disk_stats
    sp_procs, sp_out, sp_pc,                              \* the top-5 selection
    tp_alive, tp_gone, tp_denied, tp_primed, tp_cur,      \* top_processes
    tp_procs, tp_out, tp_pc,
    fl_env, fl_count, fl_calls, fl_fi, fl_line, fl_pc,    \* failed_logins_count
    gp_env, gp_ret, gp_text, gp_pc,                       \* gpu_stats
    mn_json, mn_data, mn_exit, mn_pc                      \* main

bytesVars == <<hb_n, hb_out, hb_pc>>
diskVars  == <<dk_parts, dk_i, dk_seen, dk_rows, dk_tot, dk_pc, dk_out>>
sortVars  == <<sp_procs, sp_out, sp_pc>>
loginVars == <<fl_env, fl_count, fl_calls, fl_fi, fl_line, fl_pc>>
gpuVars   == <<gp_env, gp_ret, gp_text, gp_pc>>
mainVars  == <<mn_json, mn_data, mn_exit, mn_pc>>
topVars   == <<tp_alive, tp_gone, tp_denied, tp_primed, tp_cur, tp_procs, tp_out, tp_pc>>
vars      == <<bytesVars, diskVars, sortVars, topVars, loginVars, gpuVars, mainVars>>

\* What each part of the program leaves alone.
notBytes  == <<diskVars, sortVars, topVars, loginVars, gpuVars, mainVars>>
notDisk   == <<bytesVars, sortVars, topVars, loginVars, gpuVars, mainVars>>
notSort   == <<bytesVars, diskVars, topVars, loginVars, gpuVars, mainVars>>
notTop    == <<bytesVars, diskVars, sortVars, loginVars, gpuVars, mainVars>>
notLogins == <<bytesVars, diskVars, sortVars, topVars, gpuVars, mainVars>>
notGpu    == <<bytesVars, diskVars, sortVars, topVars, loginVars, mainVars>>
notMain   == <<bytesVars, diskVars, sortVars, topVars, loginVars, gpuVars>>

None == "None"

\* ------------------------------------------------------------ bounds
MaxLimbs == 7
MaxParts == 3
MaxProcs == 6
MaxPid == 3
MaxLines == 2
MaxGpuLines == 2

\* ------------------------------------------------------------ helpers
RECURSIVE Pow2(_)
Pow2(k) == IF k = 0 THEN 1 ELSE 2 * Pow2(k - 1)

RECURSIVE BitLen(_)
BitLen(v) == IF v = 0 THEN 0 ELSE 1 + BitLen(v \div 2)

RECURSIVE SeqsUpTo(_, _)
SeqsUpTo(k, S) ==
    IF k = 0 THEN {<<>>}
    ELSE LET shorter == SeqsUpTo(k - 1, S)
         IN  shorter \cup {Append(s, x) : s \in {t \in shorter : Len(t) = k - 1}, x \in S}

\* The value of a short digit sequence, for digits that fit a machine integer.
RECURSIVE LimbVal(_)
LimbVal(d) == IF d = <<>> THEN 0 ELSE d[1] + 1024 * LimbVal(Tail(d))

RECURSIVE Zeros(_)
Zeros(k) == IF k = 0 THEN <<>> ELSE <<0>> \o Zeros(k - 1)

\* d + 1024^(k-1), carried upwards.
RECURSIVE AddAt(_, _)
AddAt(d, k) ==
    IF k > Len(d) THEN Append(d, 1)
    ELSE IF d[k] + 1 < 1024 THEN [d EXCEPT ![k] = d[k] + 1]
    ELSE AddAt([d EXCEPT ![k] = 0], k + 1)

\* ------------------------------------------------------------ human_bytes
units == <<"B", "KB", "MB", "GB", "TB", "PB">>

MantissaBits == 53

\* float(n): n rounded to 53 significant bits, ties to even.
ToFloat(d) ==
    LET L     == Len(d)
        total == 10 * (L - 1) + BitLen(d[L])
    IN  IF total <= MantissaBits THEN d
        ELSE
          LET e      == total - MantissaBits
              q      == e \div 10
              r      == e % 10
              lowlim == d[q + 1] % Pow2(r)
              below  == \E j \in 1..q : d[j] # 0
              guard  == IF r > 0 THEN lowlim >= Pow2(r - 1) ELSE d[q] >= 512
              sticky == IF r > 0
                        THEN (lowlim % Pow2(r - 1) # 0) \/ below
                        ELSE (d[q] % 512 # 0) \/ (\E j \in 1..(q - 1) : d[j] # 0)
              lsb    == (d[q + 1] \div Pow2(r)) % 2
              trunc  == Zeros(q) \o <<d[q + 1] - lowlim>> \o SubSeq(d, q + 2, L)
              step   == Pow2(r)
              bumped == IF trunc[q + 1] + step < 1024
                        THEN [trunc EXCEPT ![q + 1] = trunc[q + 1] + step]
                        ELSE AddAt([trunc EXCEPT ![q + 1] = trunc[q + 1] + step - 1024], q + 2)
          IN  IF guard /\ (sticky \/ lsb = 1) THEN bumped ELSE trunc

\* x >= 1024, for x = d / 1024^i (dividing a float by 1024 is exact).
XAtLeast1024(d, i) == Len(d) - i >= 2

\* while x >= 1024 and i < len(units)-1: x /= 1024.0; i += 1
RECURSIVE ScaleLoop(_, _)
ScaleLoopOffByOne(d, i) ==
    IF (Len(d) - i >= 3 \/ (Len(d) - i = 2 /\ (d[Len(d)] > 1 \/ \E j \in 1..(Len(d) - 1) : d[j] # 0)))
       /\ i < Len(units) - 1
    THEN ScaleLoop(d, i + 1) ELSE i

ScaleLoop(d, i) ==
    IF XAtLeast1024(d, i) /\ i < Len(units) - 1 THEN ScaleLoop(d, i + 1) ELSE i

\* floor(m * frac) and whether anything is left over, frac = fl / 1024^Len(fl).
RECURSIVE MulFrac(_, _, _, _)
MulFrac(fl, m, carry, sticky) ==
    IF fl = <<>> THEN [whole |-> carry, sticky |-> sticky]
    ELSE LET v == m * fl[1] + carry
         IN  MulFrac(Tail(fl), m, v \div 1024, sticky \/ (v % 1024 # 0))

\* f"{x:.1f}": the exact binary value rounded to tenths, ties to even.
OneDecimal(d, i) ==
    LET ip   == LimbVal(SubSeq(d, i + 1, Len(d)))
        mf   == MulFrac(SubSeq(d, 1, i), 20, 0, FALSE)
        h    == mf.whole \div 2
        up   == (mf.whole % 2 = 1) /\ (mf.sticky \/ h % 2 = 1)
        t    == IF up THEN h + 1 ELSE h
    IN  IF t = 10 THEN [int |-> ip + 1, dec |-> <<0>>] ELSE [int |-> ip, dec |-> <<t>>]

human_bytes(n) ==
    LET x == ToFloat(n)
        i == ScaleLoop(x, 0)
        v == IF i = 0 THEN [int |-> LimbVal(x), dec |-> <<>>] ELSE OneDecimal(x, i)
    IN  [int |-> v.int, dec |-> v.dec, unit |-> units[i + 1],
         text |-> IF i = 0
                  THEN ToString(v.int) \o " " \o units[i + 1]
                  ELSE ToString(v.int) \o "." \o ToString(v.dec[1]) \o " " \o units[i + 1]]

\* ------------------------------------------------------------ SpecBytes
DigitVals == {0, 1, 512, 1023}
ExtraInputs == {<<256, 1>>, <<768, 1>>, <<51, 1>>, <<52, 1>>, <<973, 1023>>,
                <<1023, 1023, 1>>, <<0, 0, 0, 0, 0, 1023, 1023>>}
ByteInputs ==
    {d \in SeqsUpTo(MaxLimbs, DigitVals) : d # <<>> /\ (Len(d) > 1 => d[Len(d)] # 0)}
    \cup ExtraInputs

BytesInit == hb_n \in ByteInputs /\ hb_out = None /\ hb_pc = "call"

FormatBytes ==
    /\ hb_pc = "call"
    /\ hb_out' = human_bytes(hb_n)
    /\ hb_pc' = "done"
    /\ UNCHANGED hb_n
    /\ UNCHANGED notBytes

BytesNext == FormatBytes


\* ------------------------------------------------------------ disk_stats
\* Mount paths in the order Python's string comparison gives them.
Mounts == <<"/", "/data">>

MountRank(m) == CHOOSE k \in 1..Len(Mounts) : Mounts[k] = m

PseudoFsNoSquashfs == {"tmpfs", "devtmpfs"}

PseudoFs == {"tmpfs", "devtmpfs", "squashfs"}

AlreadySeenNever(seen, m) == FALSE

AlreadySeen(seen, m) == m \in seen

\* rows.sort(key=lambda r: r["mount"]): insertion keeps equal keys in order.
RECURSIVE InsertByMount(_, _)
InsertByMount(sorted, r) ==
    IF sorted = <<>> THEN <<r>>
    ELSE IF MountRank(r.mount) < MountRank(sorted[1].mount)
         THEN <<r>> \o sorted
         ELSE <<sorted[1]>> \o InsertByMount(Tail(sorted), r)

RECURSIVE SortByMount(_)
SortByMount(rows) ==
    IF rows = <<>> THEN <<>>
    ELSE InsertByMount(SortByMount(SubSeq(rows, 1, Len(rows) - 1)), rows[Len(rows)])

\* A percentage is kept as an exact fraction num/den.
Overall(tot) ==
    [mount |-> "TOTAL", total |-> tot.total, used |-> tot.used, free |-> tot.free,
     percent |-> IF tot.total # 0
                 THEN [num |-> 100 * tot.used, den |-> tot.total]
                 ELSE [num |-> 0, den |-> 1]]

\* What psutil.disk_usage gives for a mount: a usage record, or an exception.
Usages == {[total |-> 0, used |-> 0, free |-> 0, percent |-> 0],
           [total |-> 8, used |-> 6, free |-> 2, percent |-> 75],
           [total |-> 4, used |-> 1, free |-> 2, percent |-> 34]}
NoUsage == [total |-> 0, used |-> 0, free |-> 0, percent |-> 0]

\* Partition records, each with what disk_usage does when asked for its mount:
\* raises is "" and usage the answer, or raises names the exception. A
\* pseudo-filesystem's usage is never asked for.
PartRecords ==
    {[mountpoint |-> m, fstype |-> "ext4", raises |-> "", usage |-> u] :
        m \in {Mounts[k] : k \in 1..Len(Mounts)}, u \in Usages}
    \cup
    {[mountpoint |-> m, fstype |-> "ext4", raises |-> e, usage |-> NoUsage] :
        m \in {Mounts[k] : k \in 1..Len(Mounts)}, e \in {"PermissionError", "OSError"}}
    \cup
    {[mountpoint |-> m, fstype |-> f, raises |-> "",
      usage |-> [total |-> 8, used |-> 6, free |-> 2, percent |-> 75]] :
        m \in {Mounts[k] : k \in 1..Len(Mounts)}, f \in {"tmpfs", "devtmpfs", "squashfs"}}

\* What psutil.disk_partitions gives: the records, or an exception.
PartitionLists ==
    {[raises |-> "", list |-> l] : l \in SeqsUpTo(MaxParts, PartRecords)}
    \cup {[raises |-> "OSError", list |-> <<>>]}

DiskInit ==
    /\ dk_parts \in PartitionLists
    /\ dk_i = 1
    /\ dk_seen = {}
    /\ dk_rows = <<>>
    /\ dk_tot = [total |-> 0, used |-> 0, free |-> 0]
    /\ dk_pc = "loop"
    /\ dk_out = None

DiskIterating == dk_pc = "loop" /\ dk_parts.raises = "" /\ dk_i <= Len(dk_parts.list)

\* psutil.disk_partitions raises: nothing in disk_stats catches it.
DiskPartitionsRaise ==
    /\ dk_pc = "loop" /\ dk_parts.raises # ""
    /\ dk_pc' = "raised"
    /\ UNCHANGED <<dk_parts, dk_i, dk_seen, dk_rows, dk_tot, dk_out>>
    /\ UNCHANGED notDisk

DiskSkipPseudo ==
    /\ DiskIterating
    /\ dk_parts.list[dk_i].fstype \in PseudoFs
    /\ dk_i' = dk_i + 1
    /\ UNCHANGED <<dk_parts, dk_seen, dk_rows, dk_tot, dk_pc, dk_out>>
    /\ UNCHANGED notDisk

DiskSkipSeen ==
    /\ DiskIterating
    /\ dk_parts.list[dk_i].fstype \notin PseudoFs
    /\ AlreadySeen(dk_seen, dk_parts.list[dk_i].mountpoint)
    /\ dk_i' = dk_i + 1
    /\ UNCHANGED <<dk_parts, dk_seen, dk_rows, dk_tot, dk_pc, dk_out>>
    /\ UNCHANGED notDisk

DiskPermissionDenied ==
    /\ DiskIterating
    /\ dk_parts.list[dk_i].fstype \notin PseudoFs
    /\ ~AlreadySeen(dk_seen, dk_parts.list[dk_i].mountpoint)
    /\ dk_parts.list[dk_i].raises = "PermissionError"
    /\ dk_seen' = dk_seen \cup {dk_parts.list[dk_i].mountpoint}
    /\ dk_i' = dk_i + 1
    /\ UNCHANGED <<dk_parts, dk_rows, dk_tot, dk_pc, dk_out>>
    /\ UNCHANGED notDisk

\* Any other exception of disk_usage leaves disk_stats.
DiskUsageRaise ==
    /\ DiskIterating
    /\ dk_parts.list[dk_i].fstype \notin PseudoFs
    /\ ~AlreadySeen(dk_seen, dk_parts.list[dk_i].mountpoint)
    /\ dk_parts.list[dk_i].raises \notin {"", "PermissionError"}
    /\ dk_seen' = dk_seen \cup {dk_parts.list[dk_i].mountpoint}
    /\ dk_pc' = "raised"
    /\ UNCHANGED <<dk_parts, dk_i, dk_rows, dk_tot, dk_out>>
    /\ UNCHANGED notDisk

DiskAppend ==
    /\ DiskIterating
    /\ dk_parts.list[dk_i].fstype \notin PseudoFs
    /\ ~AlreadySeen(dk_seen, dk_parts.list[dk_i].mountpoint)
    /\ dk_parts.list[dk_i].raises = ""
    /\ LET p == dk_parts.list[dk_i]
           u == p.usage
       IN  /\ dk_seen' = dk_seen \cup {p.mountpoint}
           /\ dk_rows' = Append(dk_rows,
                    [mount |-> p.mountpoint, total |-> u.total, used |-> u.used,
                     free |-> u.free, percent |-> u.percent])
           /\ dk_tot' = [total |-> dk_tot.total + u.total,
                         used  |-> dk_tot.used + u.used,
                         free  |-> dk_tot.free + u.free]
    /\ dk_i' = dk_i + 1
    /\ UNCHANGED <<dk_parts, dk_pc, dk_out>>
    /\ UNCHANGED notDisk

DiskReturn ==
    /\ dk_pc = "loop" /\ dk_parts.raises = "" /\ dk_i > Len(dk_parts.list)
    /\ dk_out' = [rows |-> SortByMount(dk_rows), overall |-> Overall(dk_tot)]
    /\ dk_pc' = "returned"
    /\ UNCHANGED <<dk_parts, dk_i, dk_seen, dk_rows, dk_tot>>
    /\ UNCHANGED notDisk

DiskNext ==
    \/ DiskPartitionsRaise
    \/ DiskSkipPseudo
    \/ DiskSkipSeen
    \/ DiskPermissionDenied
    \/ DiskUsageRaise
    \/ DiskAppend
    \/ DiskReturn


\* ------------------------------------------------------------ top-5 selection
TopN == 5

\* sorted(..., reverse=True) is stable: of two records with equal keys the one
\* earlier in the input stays first.
RECURSIVE InsertDesc(_, _, _)
InsertDescBeforeEquals(sorted, r, key) ==
    IF sorted = <<>> THEN <<r>>
    ELSE IF r[key] >= sorted[1][key]
         THEN <<r>> \o sorted
         ELSE <<sorted[1]>> \o InsertDesc(Tail(sorted), r, key)

InsertDesc(sorted, r, key) ==
    IF sorted = <<>> THEN <<r>>
    ELSE IF r[key] > sorted[1][key]
         THEN <<r>> \o sorted
         ELSE <<sorted[1]>> \o InsertDesc(Tail(sorted), r, key)

RECURSIVE SortedDesc(_, _)
SortedDesc(procs, key) ==
    IF procs = <<>> THEN <<>>
    ELSE InsertDesc(SortedDesc(SubSeq(procs, 1, Len(procs) - 1), key), procs[Len(procs)], key)

\* [:5]
FirstN(seq, k) == SubSeq(seq, 1, IF Len(seq) < k THEN Len(seq) ELSE k)

SelectTop(procs) ==
    [top_cpu |-> FirstN(SortedDesc(procs, "cpu"), TopN),
     top_mem |-> FirstN(SortedDesc(procs, "mem_bytes"), TopN)]

\* (cpu, mem_bytes) of a collected record.
KeyPairs == {<<0, 2>>, <<1, 0>>, <<1, 1>>, <<2, 0>>}

RECURSIVE AsProcs(_)
AsProcs(ks) ==
    IF ks = <<>> THEN <<>>
    ELSE Append(AsProcs(SubSeq(ks, 1, Len(ks) - 1)),
                [pid |-> Len(ks), name |-> <<"s", "h">>,
                 cpu |-> ks[Len(ks)][1], mem_bytes |-> ks[Len(ks)][2]])

SortInit ==
    /\ sp_procs \in {AsProcs(ks) : ks \in SeqsUpTo(MaxProcs, KeyPairs)}
    /\ sp_out = None
    /\ sp_pc = "select"

SortSelect ==
    /\ sp_pc = "select"
    /\ sp_out' = SelectTop(sp_procs)
    /\ sp_pc' = "done"
    /\ UNCHANGED sp_procs
    /\ UNCHANGED notSort

SortNext == SortSelect

\* ------------------------------------------------------------ top_processes
Pids == 1..MaxPid

NameLimit == 22

LongName == <<"k", "w", "o", "r", "k", "e", "r", "/", "u", "1", "6", ":", "3", "-",
              "e", "v", "e", "n", "t", "s", "_", "u", "n", "b">>

ProcName(p) == IF p = 1 THEN LongName ELSE <<"s", "h">>

\* A CPU figure measured over the window, and a resident size, as the OS gives them.
CpuReadings == {0, 3}
MemReadings == {0, 7}

TopInit ==
    /\ tp_alive \in SUBSET Pids
    /\ tp_gone = {}
    /\ tp_denied \in SUBSET Pids
    /\ tp_primed = {}
    /\ tp_cur = 1
    /\ tp_procs = <<>>
    /\ tp_out = None
    /\ tp_pc = "warmup"

\* The process table changes under the collector at any point of the two passes.
ProcSpawn ==
    /\ tp_pc \in {"warmup", "sleep", "scan"}
    /\ \E p \in Pids \ (tp_alive \cup tp_gone) :
          tp_alive' = tp_alive \cup {p}
    /\ UNCHANGED <<tp_gone, tp_denied, tp_primed, tp_cur, tp_procs, tp_out, tp_pc>>
    /\ UNCHANGED notTop

ProcExit ==
    /\ tp_pc \in {"warmup", "sleep", "scan"}
    /\ \E p \in tp_alive :
          /\ tp_alive' = tp_alive \ {p}
          /\ tp_gone' = tp_gone \cup {p}
    /\ UNCHANGED <<tp_denied, tp_primed, tp_cur, tp_procs, tp_out, tp_pc>>
    /\ UNCHANGED notTop

\* warmup_cpu_counters: p.cpu_percent(None) starts the counter of a process it can
\* read; any exception is passed over.
WarmupPrime ==
    /\ tp_pc = "warmup" /\ tp_cur <= MaxPid
    /\ tp_cur \in tp_alive /\ tp_cur \notin tp_denied
    /\ tp_primed' = tp_primed \cup {tp_cur}
    /\ tp_cur' = tp_cur + 1
    /\ UNCHANGED <<tp_alive, tp_gone, tp_denied, tp_procs, tp_out, tp_pc>>
    /\ UNCHANGED notTop

WarmupPass ==
    /\ tp_pc = "warmup" /\ tp_cur <= MaxPid
    /\ tp_cur \notin tp_alive \/ tp_cur \in tp_denied
    /\ tp_cur' = tp_cur + 1
    /\ UNCHANGED <<tp_alive, tp_gone, tp_denied, tp_primed, tp_procs, tp_out, tp_pc>>
    /\ UNCHANGED notTop

WarmupEnd ==
    /\ tp_pc = "warmup" /\ tp_cur > MaxPid
    /\ tp_pc' = "sleep"
    /\ UNCHANGED <<tp_alive, tp_gone, tp_denied, tp_primed, tp_cur, tp_procs, tp_out>>
    /\ UNCHANGED notTop

\* time.sleep(1.0)
Sleep ==
    /\ tp_pc = "sleep"
    /\ tp_pc' = "scan"
    /\ tp_cur' = 1
    /\ UNCHANGED <<tp_alive, tp_gone, tp_denied, tp_primed, tp_procs, tp_out>>
    /\ UNCHANGED notTop

\* p.info of a process the second pass yields. An optional attribute is <<v>>, or
\* <<>> for None: what an attribute that is denied holds. A counter that was never
\* started reads 0.0.
ProcInfos(p) ==
    {[pid |-> p, name |-> ProcName(p), cpu_percent |-> c, memory_info |-> m] :
        c \in (IF p \in tp_denied THEN {<<>>}
               ELSE IF p \in tp_primed THEN {<<v>> : v \in CpuReadings} ELSE {<<0>>}),
        m \in (IF p \in tp_denied THEN {<<>>} ELSE {<<[rss |-> v]>> : v \in MemReadings})}

\* The record the second pass appends for p.info.
RecordOf(info) ==
    LET name == IF info.name = <<>> THEN <<"?">> ELSE info.name
    IN  [pid       |-> info.pid,
         name      |-> SubSeq(name, 1, IF Len(name) < NameLimit THEN Len(name) ELSE NameLimit),
         cpu       |-> IF info.cpu_percent = <<>> \/ info.cpu_percent[1] = 0
                       THEN 0 ELSE info.cpu_percent[1],
         mem_bytes |-> IF info.memory_info # <<>> THEN info.memory_info[1].rss ELSE 0]

\* A process that is gone by the time it is read is not collected.
ScanSkipGone ==
    /\ tp_pc = "scan" /\ tp_cur <= MaxPid
    /\ tp_cur \notin tp_alive
    /\ tp_cur' = tp_cur + 1
    /\ UNCHANGED <<tp_alive, tp_gone, tp_denied, tp_primed, tp_procs, tp_out, tp_pc>>
    /\ UNCHANGED notTop

ScanAppend ==
    /\ tp_pc = "scan" /\ tp_cur <= MaxPid
    /\ tp_cur \in tp_alive
    /\ \E info \in ProcInfos(tp_cur) :
          tp_procs' = Append(tp_procs, RecordOf(info))
    /\ tp_cur' = tp_cur + 1
    /\ UNCHANGED <<tp_alive, tp_gone, tp_denied, tp_primed, tp_out, tp_pc>>
    /\ UNCHANGED notTop

TopReturn ==
    /\ tp_pc = "scan" /\ tp_cur > MaxPid
    /\ tp_out' = SelectTop(tp_procs)
    /\ tp_pc' = "done"
    /\ UNCHANGED <<tp_alive, tp_gone, tp_denied, tp_primed, tp_cur, tp_procs>>
    /\ UNCHANGED notTop

TopNext ==
    \/ ProcSpawn
    \/ ProcExit
    \/ WarmupPrime
    \/ WarmupPass
    \/ WarmupEnd
    \/ Sleep
    \/ ScanSkipGone
    \/ ScanAppend
    \/ TopReturn

\* ------------------------------------------------------------ failed_logins_count
\* An optional value (a count, a command's output) is <<v>>, or <<>> for None.
\* A command's output is a sequence of lines (journalctl) or of characters (wc).
Digits == <<"0", "1", "2", "3", "4", "5", "6", "7", "8", "9">>

IsDigit(c) == \E k \in 1..Len(Digits) : Digits[k] = c

\* str.isdigit(): not empty, digits only.
IsDigitStr(str) == str # <<>> /\ \A k \in 1..Len(str) : IsDigit(str[k])

\* int(out)
RECURSIVE ParseInt(_)
ParseInt(str) ==
    IF str = <<>> THEN 0
    ELSE 10 * ParseInt(SubSeq(str, 1, Len(str) - 1))
         + (CHOOSE v \in 0..9 : Digits[v + 1] = str[Len(str)])

LogFilesReversed == <<"/var/log/secure", "/var/log/auth.log">>

LogFiles == <<"/var/log/auth.log", "/var/log/secure">>

RECURSIVE JournalLines(_)
JournalLines(k) ==
    IF k = 0 THEN <<>> ELSE Append(JournalLines(k - 1), "sshd: Failed password for root")

\* safe_run's answers: None, or the stripped output.
JournalOuts == {<<>>} \cup {<<JournalLines(k)>> : k \in 0..MaxLines}
WcOuts == {<<>>, << <<>> >>, << <<"0">> >>, << <<"3">> >>, << <<"1", "2">> >>,
           << <<"w", "c", ":">> >>}

LogPaths == {"/var/log/auth.log", "/var/log/secure"}

\* Whether journalctl is on the path and what it prints; which log files exist
\* and what grep | wc -l prints for each.
LoginEnvs ==
    {[journalctl |-> j, journal_out |-> jo, isfile |-> e, wc_out |-> w] :
        j \in BOOLEAN, jo \in JournalOuts,
        e \in [LogPaths -> BOOLEAN],
        w \in [LogPaths -> WcOuts]}

\* What the command is never asked is left out of the environment.
LoginInit ==
    /\ fl_env \in {e \in LoginEnvs :
                     /\ ~e.journalctl => e.journal_out = <<>>
                     /\ \A f \in LogPaths : ~e.isfile[f] => e.wc_out[f] = <<>>}
    /\ fl_count = <<>>
    /\ fl_calls = <<>>
    /\ fl_fi = 1
    /\ fl_line = ""
    /\ fl_pc = "journal"

\* if out is not None: count = len(out.splitlines())
JournalCount(out) == IF out # <<>> THEN <<Len(out[1])>> ELSE <<>>

JournalAbsent ==
    /\ fl_pc = "journal" /\ ~fl_env.journalctl
    /\ fl_pc' = "files"
    /\ UNCHANGED <<fl_env, fl_count, fl_calls, fl_fi, fl_line>>
    /\ UNCHANGED notLogins

JournalQuery ==
    /\ fl_pc = "journal" /\ fl_env.journalctl
    /\ fl_calls' = Append(fl_calls, "journalctl")
    /\ fl_count' = JournalCount(fl_env.journal_out)
    /\ fl_pc' = "files"
    /\ UNCHANGED <<fl_env, fl_fi, fl_line>>
    /\ UNCHANGED notLogins

\* if count is None: for f in [...]
FilesNotNeeded ==
    /\ fl_pc = "files" /\ fl_count # <<>>
    /\ fl_pc' = "return"
    /\ UNCHANGED <<fl_env, fl_count, fl_calls, fl_fi, fl_line>>
    /\ UNCHANGED notLogins

FileMissing ==
    /\ fl_pc = "files" /\ fl_count = <<>> /\ fl_fi <= Len(LogFiles)
    /\ ~fl_env.isfile[LogFiles[fl_fi]]
    /\ fl_fi' = fl_fi + 1
    /\ UNCHANGED <<fl_env, fl_count, fl_calls, fl_line, fl_pc>>
    /\ UNCHANGED notLogins

\* if out and out.isdigit(): count = int(out); break
FileScanCounted ==
    /\ fl_pc = "files" /\ fl_count = <<>> /\ fl_fi <= Len(LogFiles)
    /\ fl_env.isfile[LogFiles[fl_fi]]
    /\ LET out == fl_env.wc_out[LogFiles[fl_fi]]
       IN  /\ out # <<>> /\ out[1] # <<>> /\ IsDigitStr(out[1])
           /\ fl_count' = <<ParseInt(out[1])>>
    /\ fl_calls' = Append(fl_calls, LogFiles[fl_fi])
    /\ fl_pc' = "return"
    /\ UNCHANGED <<fl_env, fl_fi, fl_line>>
    /\ UNCHANGED notLogins

FileScanNoCount ==
    /\ fl_pc = "files" /\ fl_count = <<>> /\ fl_fi <= Len(LogFiles)
    /\ fl_env.isfile[LogFiles[fl_fi]]
    /\ LET out == fl_env.wc_out[LogFiles[fl_fi]]
       IN  ~(out # <<>> /\ out[1] # <<>> /\ IsDigitStr(out[1]))
    /\ fl_calls' = Append(fl_calls, LogFiles[fl_fi])
    /\ fl_fi' = fl_fi + 1
    /\ UNCHANGED <<fl_env, fl_count, fl_line, fl_pc>>
    /\ UNCHANGED notLogins

FilesExhausted ==
    /\ fl_pc = "files" /\ fl_count = <<>> /\ fl_fi > Len(LogFiles)
    /\ fl_pc' = "return"
    /\ UNCHANGED <<fl_env, fl_count, fl_calls, fl_fi, fl_line>>
    /\ UNCHANGED notLogins

\* main: data['failed_logins'] if data['failed_logins'] is not None else 'unknown'
FailedLoginsLineIfTruthy(count) ==
    "Failed SSH login attempts: "
        \o (IF count # <<>> /\ count[1] # 0 THEN ToString(count[1]) ELSE "unknown")

FailedLoginsLine(count) ==
    "Failed SSH login attempts: "
        \o (IF count # <<>> THEN ToString(count[1]) ELSE "unknown")

LoginPrint ==
    /\ fl_pc = "return"
    /\ fl_line' = FailedLoginsLine(fl_count)
    /\ fl_pc' = "done"
    /\ UNCHANGED <<fl_env, fl_count, fl_calls, fl_fi>>
    /\ UNCHANGED notLogins

LoginNext ==
    \/ JournalAbsent
    \/ JournalQuery
    \/ FilesNotNeeded
    \/ FileMissing
    \/ FileScanCounted
    \/ FileScanNoCount
    \/ FilesExhausted
    \/ LoginPrint

\* ------------------------------------------------------------ gpu_stats
\* A line of nvidia-smi's output is its comma-separated parts, stripped.
GoodLine == <<"0", "Tesla T4", "45", "10", "1024", "15360", "60">>
NoUtilLine == <<"1", "GeForce GT 710", "[N/A]", "[N/A]", "10", "2048", "40">>
ShortLine == <<"No devices were found">>
GpuLines == {GoodLine, NoUtilLine, ShortLine}

\* float(s) of the parts that occur; any other string raises ValueError.
FloatTable ==
    [s \in {"0", "1", "10", "40", "45", "60", "1024", "2048", "15360"} |->
        CASE s = "0" -> 0 [] s = "1" -> 1 [] s = "10" -> 10 [] s = "40" -> 40
          [] s = "45" -> 45 [] s = "60" -> 60 [] s = "1024" -> 1024
          [] s = "2048" -> 2048 [] s = "15360" -> 15360]

IsFloat(s) == s \in DOMAIN FloatTable

GpuFields == 7

\* The loop over out.splitlines(): the records so far, or the ValueError of the
\* first part float() refuses.
RECURSIVE ParseGpuLines(_, _)
ParseGpuLines(lines, gpus) ==
    IF lines = <<>> THEN [raises |-> "", gpus |-> gpus]
    ELSE LET parts == lines[1]
         IN  IF Len(parts) >= GpuFields
             THEN IF \A k \in 3..GpuFields : IsFloat(parts[k])
                  THEN ParseGpuLines(Tail(lines), Append(gpus,
                          [id |-> parts[1], model |-> parts[2],
                           gpu_util |-> FloatTable[parts[3]],
                           mem_util |-> FloatTable[parts[4]],
                           mem_used_mib |-> FloatTable[parts[5]],
                           mem_total_mib |-> FloatTable[parts[6]],
                           temp_c |-> FloatTable[parts[7]]]))
                  ELSE [raises |-> "ValueError", gpus |-> gpus]
             ELSE ParseGpuLines(Tail(lines), gpus)

\* An optional output is <<v>>, or <<>> for None; truthy is neither None nor empty.
Truthy(out) == out # <<>> /\ out[1] # <<>>

\* gpu_stats(): what it returns (value is <<>> for None) or raises, and the tools
\* it ran, in order.
RocmTier(env, calls) ==
    IF env.rocm_smi
    THEN IF Truthy(env.rocm_out)
         THEN [raises |-> "", calls |-> Append(calls, "rocm-smi"),
               value |-> <<[vendor |-> "AMD", gpus |-> <<>>, raw |-> env.rocm_out[1]]>>]
         ELSE [raises |-> "", calls |-> Append(calls, "rocm-smi"), value |-> <<>>]
    ELSE [raises |-> "", calls |-> calls, value |-> <<>>]

gpu_stats(env) ==
    IF env.nvidia_smi
    THEN IF Truthy(env.smi_out)
         THEN LET parsed == ParseGpuLines(env.smi_out[1], <<>>)
              IN  IF parsed.raises # ""
                  THEN [raises |-> parsed.raises, calls |-> <<"nvidia-smi">>, value |-> <<>>]
                  ELSE [raises |-> "", calls |-> <<"nvidia-smi">>,
                        value |-> <<[vendor |-> "NVIDIA", gpus |-> parsed.gpus, raw |-> <<>>]>>]
         ELSE RocmTier(env, <<"nvidia-smi">>)
    ELSE RocmTier(env, <<>>)

\* main's GPU block: the header line it prints, or the not-detected message.
GpuBlock(gpu) ==
    IF gpu # <<>>
    THEN IF gpu[1].gpus # <<>> THEN "GPU: table"
         ELSE IF gpu[1].vendor = "AMD" THEN "GPU: raw"
         ELSE "GPU: (detected, but no structured output)"
    ELSE "GPU: not detected / nvidia-smi not found"

\* An empty raw text is the empty sequence, as an empty output is.
GpuEnvs ==
    {[nvidia_smi |-> n, smi_out |-> so, rocm_smi |-> r, rocm_out |-> ro] :
        n \in BOOLEAN, r \in BOOLEAN,
        so \in {<<>>} \cup {<<l>> : l \in SeqsUpTo(MaxGpuLines, GpuLines)},
        ro \in {<<>>, << <<>> >>, << <<"GPU[0] : GPU use (%): 12">> >>}}

GpuInit ==
    /\ gp_env \in {e \in GpuEnvs : (~e.nvidia_smi => e.smi_out = <<>>)
                                    /\ (~e.rocm_smi => e.rocm_out = <<>>)}
    /\ gp_ret = [raises |-> "", calls |-> <<>>, value |-> <<>>]
    /\ gp_text = ""
    /\ gp_pc = "call"

GpuReturn ==
    /\ gp_pc = "call"
    /\ gpu_stats(gp_env).raises = ""
    /\ gp_ret' = gpu_stats(gp_env)
    /\ gp_pc' = "print"
    /\ UNCHANGED <<gp_env, gp_text>>
    /\ UNCHANGED notGpu

\* The ValueError leaves gpu_stats and main: nothing is printed.
GpuRaise ==
    /\ gp_pc = "call"
    /\ gpu_stats(gp_env).raises # ""
    /\ gp_ret' = gpu_stats(gp_env)
    /\ gp_pc' = "raised"
    /\ UNCHANGED <<gp_env, gp_text>>
    /\ UNCHANGED notGpu

GpuPrint ==
    /\ gp_pc = "print"
    /\ gp_text' = GpuBlock(gp_ret.value)
    /\ gp_pc' = "done"
    /\ UNCHANGED <<gp_env, gp_ret>>
    /\ UNCHANGED notGpu

GpuNext == GpuReturn \/ GpuRaise \/ GpuPrint

\* ------------------------------------------------------------ main
\* disk_stats leaves by an exception when disk_partitions raises, or when
\* disk_usage raises anything but PermissionError for a mount the loop asks about.
DiskStatsRaises(parts) ==
    \/ parts.raises # ""
    \/ \E i \in 1..Len(parts.list) :
          /\ parts.list[i].fstype \notin PseudoFs
          /\ parts.list[i].raises \notin {"", "PermissionError"}
          /\ ~\E j \in 1..(i - 1) :
                  /\ parts.list[j].fstype \notin PseudoFs
                  /\ parts.list[j].mountpoint = parts.list[i].mountpoint

SnapshotKeys == {"host", "os", "uptime_seconds", "load_avg", "cpu_usage_percent",
                 "memory", "disks", "top_cpu", "top_mem", "users", "failed_logins",
                 "gpu", "temperatures"}

EmptyDict == [k \in {} |-> 0]

MainInit ==
    /\ mn_json \in BOOLEAN
    /\ mn_data = EmptyDict
    /\ mn_exit = -1
    /\ mn_pc = "import"

\* import psutil fails: the message goes to stderr and sys.exit(1).
ImportFails ==
    /\ mn_pc = "import"
    /\ mn_exit' = 1
    /\ mn_pc' = "exited"
    /\ UNCHANGED <<mn_json, mn_data>>
    /\ UNCHANGED notMain

ImportOk ==
    /\ mn_pc = "import"
    /\ mn_pc' = "header"
    /\ UNCHANGED <<mn_json, mn_data, mn_exit>>
    /\ UNCHANGED notMain

\* An exception nothing catches ends the interpreter with status 1.
Uncaught ==
    mn_exit' = 1 /\ mn_pc' = "exited" /\ UNCHANGED <<mn_json, mn_data>> /\ UNCHANGED notMain

\* uptime_seconds() and load_averages() answer None on any exception;
\* int(uptime_seconds() or 0).
MainHeader ==
    /\ mn_pc = "header"
    /\ \E boot_time_ok \in BOOLEAN, getloadavg_ok \in BOOLEAN :
          mn_data' = [host |-> "node", os |-> "Linux 6.1 (Linux-6.1-x86_64)",
                      uptime_seconds |-> IF boot_time_ok THEN 3600 ELSE 0,
                      load_avg |-> IF getloadavg_ok THEN << <<1, 5, 15>> >> ELSE <<>>,
                      cpu_usage_percent |-> 12,
                      memory |-> [total |-> 8, used |-> 6, free |-> 2, percent |-> 75]]
    /\ mn_pc' = "disk"
    /\ UNCHANGED <<mn_json, mn_exit>>
    /\ UNCHANGED notMain

MainDiskReturns ==
    /\ mn_pc = "disk"
    /\ \E parts \in PartitionLists : ~DiskStatsRaises(parts)
    /\ mn_data' = mn_data @@ ("disks" :> "per_mount and overall")
    /\ mn_pc' = "top"
    /\ UNCHANGED <<mn_json, mn_exit>>
    /\ UNCHANGED notMain

MainDiskRaises ==
    /\ mn_pc = "disk"
    /\ \E parts \in PartitionLists : DiskStatsRaises(parts)
    /\ Uncaught

\* top_processes raises nothing: its passes skip what they cannot read.
MainTop ==
    /\ mn_pc = "top"
    /\ mn_data' = mn_data @@ ("top_cpu" :> "top_cpu") @@ ("top_mem" :> "top_mem")
    /\ mn_pc' = "users"
    /\ UNCHANGED <<mn_json, mn_exit>>
    /\ UNCHANGED notMain

MainUsers ==
    /\ mn_pc = "users"
    /\ \E users \in {<<>>, << <<"root">> >>} :
          mn_data' = mn_data @@ ("users" :> users)
    /\ mn_pc' = "logins"
    /\ UNCHANGED <<mn_json, mn_exit>>
    /\ UNCHANGED notMain

MainLogins ==
    /\ mn_pc = "logins"
    /\ \E count \in {<<>>, <<0>>, <<3>>} :
          mn_data' = mn_data @@ ("failed_logins" :> count)
    /\ mn_pc' = "gpu"
    /\ UNCHANGED <<mn_json, mn_exit>>
    /\ UNCHANGED notMain

MainGpuReturns ==
    /\ mn_pc = "gpu"
    /\ \E env \in GpuEnvs :
          /\ gpu_stats(env).raises = ""
          /\ mn_data' = mn_data @@ ("gpu" :> gpu_stats(env).value)
    /\ mn_pc' = "temps"
    /\ UNCHANGED <<mn_json, mn_exit>>
    /\ UNCHANGED notMain

MainGpuRaises ==
    /\ mn_pc = "gpu"
    /\ \E env \in GpuEnvs : gpu_stats(env).raises # ""
    /\ Uncaught

\* temperatures() passes over every failed read; an empty mapping is None.
MainTemps ==
    /\ mn_pc = "temps"
    /\ \E temps \in {<<>>, << [chip |-> "nvme", label |-> "nvme0", current |-> 41] >>} :
          mn_data' = mn_data @@ ("temperatures" :> temps)
    /\ mn_pc' = "print"
    /\ UNCHANGED <<mn_json, mn_exit>>
    /\ UNCHANGED notMain

\* json.dumps(data) or the text report; main returns and the status is 0.
MainPrint ==
    /\ mn_pc = "print"
    /\ mn_exit' = 0
    /\ mn_pc' = "exited"
    /\ UNCHANGED <<mn_json, mn_data>>
    /\ UNCHANGED notMain

MainNext ==
    \/ ImportFails
    \/ ImportOk
    \/ MainHeader
    \/ MainDiskReturns
    \/ MainDiskRaises
    \/ MainTop
    \/ MainUsers
    \/ MainLogins
    \/ MainGpuReturns
    \/ MainGpuRaises
    \/ MainTemps
    \/ MainPrint

\* ------------------------------------------------------------ specifications
BytesIdle == hb_n = <<0>> /\ hb_out = None /\ hb_pc = "idle"

DiskIdle ==
    /\ dk_parts = [raises |-> "", list |-> <<>>]
    /\ dk_i = 1 /\ dk_seen = {} /\ dk_rows = <<>>
    /\ dk_tot = [total |-> 0, used |-> 0, free |-> 0]
    /\ dk_pc = "idle" /\ dk_out = None

SortIdle == sp_procs = <<>> /\ sp_out = None /\ sp_pc = "idle"

TopIdle ==
    /\ tp_alive = {} /\ tp_gone = {} /\ tp_denied = {} /\ tp_primed = {}
    /\ tp_cur = 1 /\ tp_procs = <<>> /\ tp_out = None /\ tp_pc = "idle"

LoginIdle ==
    /\ fl_env = [journalctl |-> FALSE] /\ fl_count = <<>> /\ fl_calls = <<>>
    /\ fl_fi = 1 /\ fl_line = "" /\ fl_pc = "idle"

GpuIdle ==
    /\ gp_env = [nvidia_smi |-> FALSE, rocm_smi |-> FALSE]
    /\ gp_ret = [raises |-> "", calls |-> <<>>, value |-> <<>>]
    /\ gp_text = "" /\ gp_pc = "idle"

MainIdle == mn_json = FALSE /\ mn_data = EmptyDict /\ mn_exit = -1 /\ mn_pc = "idle"

InitBytes ==
    BytesInit /\ DiskIdle /\ SortIdle /\ TopIdle /\ LoginIdle /\ GpuIdle /\ MainIdle
InitDisk ==
    BytesIdle /\ DiskInit /\ SortIdle /\ TopIdle /\ LoginIdle /\ GpuIdle /\ MainIdle
InitSort ==
    BytesIdle /\ DiskIdle /\ SortInit /\ TopIdle /\ LoginIdle /\ GpuIdle /\ MainIdle
InitTop ==
    BytesIdle /\ DiskIdle /\ SortIdle /\ TopInit /\ LoginIdle /\ GpuIdle /\ MainIdle
InitLogins ==
    BytesIdle /\ DiskIdle /\ SortIdle /\ TopIdle /\ LoginInit /\ GpuIdle /\ MainIdle
InitGpu ==
    BytesIdle /\ DiskIdle /\ SortIdle /\ TopIdle /\ LoginIdle /\ GpuInit /\ MainIdle
InitMain ==
    BytesIdle /\ DiskIdle /\ SortIdle /\ TopIdle /\ LoginIdle /\ GpuIdle /\ MainInit

SpecBytes  == InitBytes /\ [][BytesNext]_vars
SpecDisk   == InitDisk /\ [][DiskNext]_vars
SpecSort   == InitSort /\ [][SortNext]_vars
SpecTop    == InitTop /\ [][TopNext]_vars
SpecLogins == InitLogins /\ [][LoginNext]_vars
SpecGpu    == InitGpu /\ [][GpuNext]_vars
SpecMain   == InitMain /\ [][MainNext]_vars

\* ------------------------------------------------------------ properties: human_bytes
Ladder == <<"B", "KB", "MB", "GB", "TB", "PB">>

\* C2: for every n, human_bytes(n) is in the unit B when n < 1024, in the k-th
\* unit above B when 1024^k <= n < 1024^(k+1), and in PB from 1024^5 on (n has
\* k+1 base-1024 digits); B is printed as the integer n with no decimal point,
\* every other unit with exactly one decimal digit; and 0, 1023, 1024, 1536 and
\* 1024^4 print as "0 B", "1023 B", "1.0 KB", "1.5 KB" and "1.0 TB".
C2_UnitLadderAndDecimals ==
    hb_pc = "done" =>
        LET k == IF Len(hb_n) < Len(Ladder) THEN Len(hb_n) ELSE Len(Ladder)
        IN  /\ hb_out.unit = Ladder[k]
            /\ k = 1 =>
                 /\ hb_out.dec = <<>>
                 /\ hb_out.int = hb_n[1]
                 /\ hb_out.text = ToString(hb_n[1]) \o " B"
            /\ k > 1 =>
                 /\ Len(hb_out.dec) = 1
                 /\ hb_out.dec[1] \in 0..9
                 /\ hb_out.text = ToString(hb_out.int) \o "." \o ToString(hb_out.dec[1])
                                    \o " " \o Ladder[k]
            /\ hb_n = <<0>> => hb_out.text = "0 B"
            /\ hb_n = <<1023>> => hb_out.text = "1023 B"
            /\ hb_n = <<0, 1>> => hb_out.text = "1.0 KB"
            /\ hb_n = <<512, 1>> => hb_out.text = "1.5 KB"
            /\ hb_n = <<0, 0, 0, 0, 1>> => hb_out.text = "1.0 TB"

\* A number of seven digits, at least 1024^6, has been formatted and stayed in PB.
C2_Witness ==
    hb_pc = "done" /\ Len(hb_n) = 7 /\ hb_out.unit = "PB" /\ Len(hb_out.dec) = 1

\* ------------------------------------------------------------ properties: disk_stats
IsPseudo(p) == p.fstype \in {"tmpfs", "devtmpfs", "squashfs"}

\* The first record of its mount path, in enumeration order.
FirstOfPath(parts, i) ==
    ~\E j \in 1..(i - 1) : parts[j].mountpoint = parts[i].mountpoint

\* The first record of its mount path that is not a pseudo-filesystem.
FirstRealOfPath(parts, i) ==
    /\ ~IsPseudo(parts[i])
    /\ ~\E j \in 1..(i - 1) :
            ~IsPseudo(parts[j]) /\ parts[j].mountpoint = parts[i].mountpoint

RECURSIVE SumRows(_, _)
SumRows(rows, field) ==
    IF rows = <<>> THEN 0 ELSE rows[1][field] + SumRows(Tail(rows), field)

RECURSIVE SumUsage(_, _, _)
SumUsage(parts, idx, field) ==
    IF idx = {} THEN 0
    ELSE LET i == CHOOSE i \in idx : TRUE
         IN  parts[i].usage[field] + SumUsage(parts, idx \ {i}, field)

RowOf(p) ==
    [mount |-> p.mountpoint, total |-> p.usage.total, used |-> p.usage.used,
     free |-> p.usage.free, percent |-> p.usage.percent]

\* C3: the Total row's total, used and free are the sums over the rows returned,
\* its percent is 100 * used / total, or 0 when the total is 0, and the rows are
\* those of the mounts asked about and answered: no pseudo-filesystem and no
\* mount whose usage query raised permission-denied is a row or part of the Total.
C3_TotalIsSumOfRows ==
    dk_pc = "returned" =>
        LET parts    == dk_parts.list
            rows     == dk_out.rows
            overall  == dk_out.overall
            included == {i \in 1..Len(parts) :
                            FirstRealOfPath(parts, i) /\ parts[i].raises = ""}
        IN  /\ \A f \in {"total", "used", "free"} :
                  /\ overall[f] = SumRows(rows, f)
                  /\ overall[f] = SumUsage(parts, included, f)
            /\ IF overall.total = 0
               THEN overall.percent.num = 0
               ELSE overall.percent.num * overall.total
                      = 100 * overall.used * overall.percent.den
            /\ overall.percent.den > 0
            /\ Len(rows) = Cardinality(included)
            /\ \A k \in 1..Len(rows) : \E i \in included : rows[k] = RowOf(parts[i])
            /\ \A i \in included : \E k \in 1..Len(rows) : rows[k] = RowOf(parts[i])

\* disk_stats has returned two rows and a Total over them, having passed over a
\* pseudo-filesystem or a mount that denied permission.
C3_Witness ==
    /\ dk_pc = "returned"
    /\ Len(dk_out.rows) = 2
    /\ dk_out.overall.total = 12 /\ dk_out.overall.used = 7
    /\ \E i \in 1..Len(dk_parts.list) :
          IsPseudo(dk_parts.list[i]) \/ dk_parts.list[i].raises = "PermissionError"

RowsOfPath(rows, m) == {k \in 1..Len(rows) : rows[k].mount = m}

\* C4 as stated: a mount path has at most one row, and that row carries the usage
\* of the first record of that path in enumeration order.
C4_RowIsFirstRecordOfPath ==
    dk_pc = "returned" =>
        \A i \in 1..Len(dk_parts.list) :
            FirstOfPath(dk_parts.list, i) =>
                LET ks == RowsOfPath(dk_out.rows, dk_parts.list[i].mountpoint)
                IN  /\ Cardinality(ks) <= 1
                    /\ \A k \in ks : dk_out.rows[k] = RowOf(dk_parts.list[i])

\* C4, amended: a mount path has at most one row; the row carries the usage of
\* the first record of that path that is not a pseudo-filesystem, and is there
\* exactly when that record's usage query answered; no other record of the path
\* gives a row or adds to the Total.
C4_RowIsFirstRealRecordOfPath ==
    dk_pc = "returned" =>
        LET parts == dk_parts.list
            rows  == dk_out.rows
            kept  == {i \in 1..Len(parts) :
                         FirstRealOfPath(parts, i) /\ parts[i].raises = ""}
        IN  /\ \A i \in 1..Len(parts) :
                  LET ks == RowsOfPath(rows, parts[i].mountpoint)
                  IN  /\ Cardinality(ks) <= 1
                      /\ FirstRealOfPath(parts, i) =>
                            /\ (ks # {}) = (parts[i].raises = "")
                            /\ \A k \in ks : rows[k] = RowOf(parts[i])
            /\ \A k \in 1..Len(rows) : \E i \in 1..Len(parts) : rows[k].mount = parts[i].mountpoint
            /\ \A f \in {"total", "used", "free"} :
                  dk_out.overall[f] = SumUsage(parts, kept, f)

\* Two records of one path, neither a pseudo-filesystem, with different usages:
\* the first is the row.
C4_Witness ==
    /\ dk_pc = "returned"
    /\ \E i, j \in 1..Len(dk_parts.list) :
          /\ i < j
          /\ dk_parts.list[i].mountpoint = dk_parts.list[j].mountpoint
          /\ ~IsPseudo(dk_parts.list[i]) /\ ~IsPseudo(dk_parts.list[j])
          /\ dk_parts.list[i].raises = "" /\ dk_parts.list[j].raises = ""
          /\ dk_parts.list[i].usage # dk_parts.list[j].usage
          /\ \E k \in 1..Len(dk_out.rows) : dk_out.rows[k] = RowOf(dk_parts.list[i])

\* The rows come back sorted by mount path.
DiskRowsSorted ==
    dk_pc = "returned" =>
        \A k \in 1..(Len(dk_out.rows) - 1) :
            MountRank(dk_out.rows[k].mount) < MountRank(dk_out.rows[k + 1].mount)

\* disk_stats leaves by an exception exactly when DiskStatsRaises says so.
DiskRaisesAgree ==
    dk_pc \in {"returned", "raised"} => ((dk_pc = "raised") = DiskStatsRaises(dk_parts))

\* ------------------------------------------------------------ properties: top-5 selection
PosOf(procs, r) == CHOOSE j \in 1..Len(procs) : procs[j].pid = r.pid

\* a comes before b in the descending order that keeps input order among equals.
Before(procs, a, b, key) ==
    \/ a[key] > b[key]
    \/ a[key] = b[key] /\ PosOf(procs, a) < PosOf(procs, b)

IsTopOf(procs, top, key) ==
    /\ Len(top) = (IF Len(procs) < 5 THEN Len(procs) ELSE 5)
    /\ \A k \in 1..Len(top) : \E j \in 1..Len(procs) : top[k] = procs[j]
    /\ \A k, l \in 1..Len(top) : k < l => Before(procs, top[k], top[l], key)
    /\ \A j \in 1..Len(procs) :
          (\A k \in 1..Len(top) : top[k] # procs[j]) =>
              \A k \in 1..Len(top) : Before(procs, top[k], procs[j], key)

\* C5: top_cpu is the first min(5, n) records in descending order of CPU, top_mem
\* the first min(5, n) in descending order of resident memory, records with equal
\* keys in their input order, so that input order decides which tied record is cut.
C5_TopFiveStableDescending ==
    sp_pc = "done" =>
        /\ IsTopOf(sp_procs, sp_out.top_cpu, "cpu")
        /\ IsTopOf(sp_procs, sp_out.top_mem, "mem_bytes")

\* More than five records, and one left out of top_cpu ties with the last one in.
C5_Witness ==
    /\ sp_pc = "done"
    /\ Len(sp_procs) > 5
    /\ \E j \in 1..Len(sp_procs) :
          /\ \A k \in 1..5 : sp_out.top_cpu[k] # sp_procs[j]
          /\ sp_procs[j].cpu = sp_out.top_cpu[5].cpu

\* ------------------------------------------------------------ properties: top_processes
\* C6: a process that is gone or access-denied when the second pass reads it is
\* not in the candidate list, so never in top_cpu or top_mem with 0.0 or 0 in
\* place of what could not be read.
C6_UnreadableProcessOmitted ==
    /\ \A k \in 1..Len(tp_procs) : tp_procs[k].pid \notin tp_denied
    /\ tp_pc = "done" =>
          \A k \in 1..Len(tp_out.top_cpu) : tp_out.top_cpu[k].pid \notin tp_denied

\* C10: a CPU figure that is reported was measured over the window: the counter
\* of its process was started in the warm-up pass, before the sleep.
C10_ReportedCpuSpansWindow ==
    \A k \in 1..Len(tp_procs) :
        tp_procs[k].pid \notin tp_denied => tp_procs[k].pid \in tp_primed

\* A process that is gone when the second pass comes to it is not collected.
GoneProcessOmitted ==
    \A k \in 1..Len(tp_procs) : tp_procs[k].pid \notin tp_gone \/ tp_procs[k].pid < tp_cur

\* ------------------------------------------------------------ properties: failed_logins_count
AuthLog == "/var/log/auth.log"
Secure == "/var/log/secure"

JournalYields == fl_env.journalctl /\ fl_env.journal_out # <<>>

\* The count a scan's output stands for, when it is one.
WcCounts == {<<<<"0">>, 0>>, <<<<"3">>, 3>>, <<<<"1", "2">>, 12>>}

FileYields(f) ==
    /\ fl_env.isfile[f]
    /\ \E c \in WcCounts : fl_env.wc_out[f] = <<c[1]>>

CountOf(f) == (CHOOSE c \in WcCounts : fl_env.wc_out[f] = <<c[1]>>)[2]

FileScans == SelectSeq(fl_calls, LAMBDA c : c # "journalctl")

\* C7: the count is None exactly when neither the journal query nor a log-file
\* scan yields a count; otherwise it is the count of the first tier that yields
\* one, a count of 0 included; and the text line says "unknown" only for None.
C7_UnknownIsNotZero ==
    fl_pc = "done" =>
        /\ (fl_count = <<>>) = ~(JournalYields \/ FileYields(AuthLog) \/ FileYields(Secure))
        /\ JournalYields => fl_count = <<Len(fl_env.journal_out[1])>>
        /\ ~JournalYields /\ FileYields(AuthLog) => fl_count = <<CountOf(AuthLog)>>
        /\ ~JournalYields /\ ~FileYields(AuthLog) /\ FileYields(Secure)
              => fl_count = <<CountOf(Secure)>>
        /\ (fl_line = "Failed SSH login attempts: unknown") = (fl_count = <<>>)
        /\ fl_count # <<>> =>
              fl_line = "Failed SSH login attempts: " \o ToString(fl_count[1])

\* A journal with no matching line: the count is 0 and is printed as 0.
C7_Witness ==
    /\ fl_pc = "done"
    /\ JournalYields /\ fl_env.journal_out[1] = <<>>
    /\ fl_count = <<0>>
    /\ fl_line = "Failed SSH login attempts: 0"

\* C8 as stated: when the journal query succeeds no log file is scanned;
\* otherwise the one file scanned is the first of the two that exists, and
\* /var/log/secure is looked at only when /var/log/auth.log does not exist.
C8_FirstExistingFileOnly ==
    fl_pc = "done" =>
        /\ JournalYields => fl_calls = <<"journalctl">>
        /\ ~JournalYields =>
              FileScans = (IF fl_env.isfile[AuthLog] THEN <<AuthLog>>
                           ELSE IF fl_env.isfile[Secure] THEN <<Secure>> ELSE <<>>)
        /\ (\E k \in 1..Len(fl_calls) : fl_calls[k] = Secure) => ~fl_env.isfile[AuthLog]

\* C8, amended: when the journal query succeeds no log file is scanned;
\* otherwise the files that exist are scanned in the order /var/log/auth.log,
\* /var/log/secure up to the first whose scan yields a count, so
\* /var/log/secure is scanned only when /var/log/auth.log does not exist or its
\* scan yields no count.
C8_FirstYieldingFileWins ==
    fl_pc = "done" =>
        /\ fl_env.journalctl = (\E k \in 1..Len(fl_calls) : fl_calls[k] = "journalctl")
        /\ JournalYields => fl_calls = <<"journalctl">>
        /\ ~JournalYields =>
              FileScans = (IF fl_env.isfile[AuthLog] THEN <<AuthLog>> ELSE <<>>)
                          \o (IF ~FileYields(AuthLog) /\ fl_env.isfile[Secure]
                              THEN <<Secure>> ELSE <<>>)
        /\ (\E k \in 1..Len(fl_calls) : fl_calls[k] = Secure)
              => ~fl_env.isfile[AuthLog] \/ ~FileYields(AuthLog)

\* Both files exist, the scan of the first yields no count, the second is scanned.
C8_Witness ==
    /\ fl_pc = "done"
    /\ fl_env.isfile[AuthLog] /\ ~FileYields(AuthLog)
    /\ FileScans = <<AuthLog, Secure>>
    /\ fl_count # <<>>

\* ------------------------------------------------------------ properties: gpu_stats
NvidiaAnswers == gp_env.nvidia_smi /\ gp_env.smi_out # <<>> /\ gp_env.smi_out[1] # <<>>
AmdAnswers == gp_env.rocm_smi /\ gp_env.rocm_out # <<>> /\ gp_env.rocm_out[1] # <<>>

\* C9: when nvidia-smi is found and prints output the result is tagged NVIDIA
\* and rocm-smi is not run; the AMD report is the result only when the NVIDIA
\* tier gave none and rocm-smi is found and prints output; with no tier
\* answering the result is None and the text says not detected.
C9_NvidiaThenAmd ==
    gp_pc \in {"print", "done", "raised"} =>
        /\ NvidiaAnswers =>
              /\ gp_ret.value # <<>>
              /\ gp_ret.value[1].vendor = "NVIDIA"
              /\ \A k \in 1..Len(gp_ret.calls) : gp_ret.calls[k] # "rocm-smi"
        /\ gp_ret.value # <<>> /\ gp_ret.value[1].vendor = "AMD"
              => ~NvidiaAnswers /\ AmdAnswers
        /\ ~NvidiaAnswers /\ ~AmdAnswers => gp_ret.value = <<>>
        /\ gp_pc = "done" /\ gp_ret.value = <<>>
              => gp_text = "GPU: not detected / nvidia-smi not found"

\* ------------------------------------------------------------ properties: main
\* C1: whatever the adapters other than the psutil import do, main runs to its
\* end with every field of the snapshot set and the status is 0.
C1_OnlyMissingPsutilAborts ==
    mn_pc = "exited" /\ DOMAIN mn_data # {} =>
        /\ mn_exit = 0
        /\ SnapshotKeys \subseteq DOMAIN mn_data

=============================================================================
